---- MODULE Spec2Model ----
(***************************************************************************)
(* Model of the queue scheduler of the Telegram music bot (src/main.py).   *)
(*                                                                         *)
(* The bot is one asyncio event loop.  A handler runs without interruption *)
(* from one suspension point (an await that really waits) to the next, so  *)
(* every action below is the code executed between two suspension points.  *)
(* `await play_next(chat_id)` enters play_next synchronously: its first    *)
(* lines (699-710) belong to the step of the caller.  Awaits that only     *)
(* send or edit a chat message are merged with the suspension point next   *)
(* to them when no shared state is touched in between.                     *)
(* download_audio awaits nothing: while it runs, the loop serves no handler *)
(* (LoopBusy).                                                             *)
(*                                                                         *)
(* The dictionaries is_playing and is_paused are only read with .get(), so *)
(* a missing key is FALSE; a missing key of queues is the empty list and a *)
(* missing key of now_playing is NoItem.                                   *)
(***************************************************************************)
EXTENDS Integers, Sequences, FiniteSets, TLC

\* Config.MAX_QUEUE_SIZE (src/main.py:42) is 100; the model is checked with
\* this scaled-down capacity, the code only ever compares a length with it.
MAX_QUEUE_SIZE == 3
\* play requests a chat may have accepted in one run of the model: in a run
\* that starts without a queue file, in a run that starts from a queue file,
\* and in a run of two chats or of two users
MaxPlays == 3
MaxPlaysLoaded == 1
MaxPlaysOther == 1
\* command handlers of one chat suspended in a transport call at once
MaxInflight == 1

Chats == {"c1", "c2"}
Users == {"u1", "u2"}

\* QueueItem, lines 87-94: chat is chat_id, by is requested_by, and id is the
\* acceptance number of the request within its chat; it stands for the
\* identity of the request (its title, url and duration). at is added_at,
\* datetime.now() of the constructor: the time of the play request for an
\* item made by play_command, the time of loading for one made by load_data.
QueueItemAt(c, n, u, w) == [chat |-> c, id |-> n, by |-> u, at |-> w]
QueueItem(c, n, u) == QueueItemAt(c, n, u, "request")
NoItem == QueueItemAt("none", 0, "nobody", "never")

\* the voice-chat transport (pytgcalls) as the code uses it
NotJoined == [joined |-> FALSE, stream |-> NoItem, paused |-> FALSE]

VARIABLES
    queues,       \* music_bot.queues: chat -> list of QueueItem
    now_playing,  \* music_bot.now_playing: chat -> QueueItem, NoItem when absent
    is_playing,   \* music_bot.is_playing
    is_paused,    \* music_bot.is_paused
    saved,        \* contents of Config.QUEUE_FILE
    tasks,        \* chat -> running play_next invocations, each suspended at pc
    cmds,         \* chat -> command handlers suspended in their await
    call,         \* chat -> state of the group call of the transport
    files,        \* chat -> ids of the items whose audio file is in temp/
    nextId,       \* history: chat -> id of the next accepted request
    left,         \* bound: chat -> play requests it may still accept
    cfg,          \* bound: the chats and users that talk to the bot in the run
    deqlog,       \* history: chat -> ids popped by play_next, in order
    pristine,     \* history: chat -> no clear, end or restart so far
    ev            \* history: the step taken last

vars == <<queues, now_playing, is_playing, is_paused, saved, tasks, cmds, call,
          files, nextId, left, cfg, deqlog, pristine, ev>>

\* a step of handler op for chat c about item n, and the same of a command
\* that branches on the user u who sent it
EventBy(op, c, n, u) == [op |-> op, chat |-> c, id |-> n, by |-> u]
Event(op, c, n) == EventBy(op, c, n, "nobody")

----------------------------------------------------------------------------
\* The expressions of the code on which the handlers branch.

\* line 328: len(queue) >= Config.MAX_QUEUE_SIZE
QueueFullOff(q) == Len(q) > MAX_QUEUE_SIZE
QueueFull(q) == Len(q) >= MAX_QUEUE_SIZE

\* line 339: queue.append(queue_item)
Enqueue(q, it) == Append(q, it)

\* line 704: queue.pop(0), the item returned and the list left behind
PopBack(q) == [item |-> q[Len(q)], rest |-> SubSeq(q, 1, Len(q) - 1)]
PopKeep(q) == [item |-> Head(q), rest |-> q]
Pop(q) == [item |-> Head(q), rest |-> Tail(q)]

\* line 345: not is_playing.get(chat_id) or not is_paused.get(chat_id)
ShouldStart(c) == ~is_playing[c] \/ ~is_paused[c]

\* lines 180-189: bot.get_chat_member is a coroutine function called without
\* await, so member.status raises AttributeError and the bare except returns
\* False for every chat and user.
is_admin(c, u) == FALSE

\* lines 184-187: the members of a chat whose status is ADMINISTRATOR or OWNER
ChatAdmins == {"u2"}

\* lines 142-150: the dictionary that save_data writes for an item; added_at
\* is not written
ToJson(it) == [chat_id |-> it.chat, id |-> it.id, requested_by |-> it.by]

\* lines 127-133: the QueueItem that load_data makes of a dictionary
FromJson(r) == QueueItemAt(r.chat_id, r.id, r.requested_by, "load")

\* lines 139-158: save_data dumps every queue, item by item in order
save_data(qs) == [c \in DOMAIN qs |-> [i \in 1..Len(qs[c]) |-> ToJson(qs[c][i])]]

\* lines 118-137, as load_data would be if it read each list backwards
load_dataReversed(file) ==
    [c \in DOMAIN file |-> [i \in 1..Len(file[c]) |-> FromJson(file[c][Len(file[c]) + 1 - i])]]

\* lines 118-137: load_data rebuilds every queue from the file
load_data(file) == [c \in DOMAIN file |-> [i \in 1..Len(file[c]) |-> FromJson(file[c][i])]]

\* the phases of the specification, read off the flags
Idle(c) == ~is_playing[c]
Paused(c) == is_playing[c] /\ is_paused[c]
Active(c) == is_playing[c] /\ ~is_paused[c]
Fetching(c) == Active(c) /\ \E t \in tasks[c] : t.item = now_playing[c] /\ t.pc # "sleeping"
Streaming(c) == Active(c) /\ ~Fetching(c)

----------------------------------------------------------------------------
\* MusicBot.__init__, lines 97-116: the process starts from the queue file that
\* an earlier run left, here no file, or a queue of chat c1 that is full or
\* one short of full.
StartFile(n) ==
    [c \in Chats |-> IF c = "c1" THEN [i \in 1..n |-> ToJson(QueueItem(c, i, "u1"))] ELSE <<>>]

\* a run of the chats CS and users US that starts from the file StartFile(n),
\* in which chat c1 accepts at most b play requests
InitWith(CS, US, n, b) ==
    /\ saved = StartFile(n)
    /\ queues = load_data(saved)
    /\ now_playing = [c \in Chats |-> NoItem]
    /\ is_playing = [c \in Chats |-> FALSE]
    /\ is_paused = [c \in Chats |-> FALSE]
    /\ tasks = [c \in Chats |-> {}]
    /\ cmds = [c \in Chats |-> {}]
    /\ call = [c \in Chats |-> NotJoined]
    /\ files = [c \in Chats |-> {}]
    /\ nextId = [c \in Chats |-> Len(saved[c]) + 1]
    /\ left = [c \in Chats |-> IF c \notin CS THEN 0 ELSE IF c = "c1" THEN b ELSE MaxPlaysOther]
    /\ cfg = [chats |-> CS, users |-> US]
    /\ deqlog = [c \in Chats |-> <<>>]
    /\ pristine = [c \in Chats |-> TRUE]
    /\ ev = Event("init", "c1", 0)

\* The runs checked: one chat without a queue file; one chat whose queue file
\* is full or one short of full; two chats without a queue file; one chat with
\* two users, the second of them an administrator of the chat.
Init ==
    \/ InitWith({"c1"}, {"u1"}, 0, MaxPlays)
    \/ \E n \in {MAX_QUEUE_SIZE - 1, MAX_QUEUE_SIZE} : InitWith({"c1"}, {"u1"}, n, MaxPlaysLoaded)
    \/ InitWith(Chats, {"u1"}, 0, MaxPlaysOther)
    \/ InitWith({"c1"}, Users, 0, MaxPlaysOther)

\* play_next, lines 697-710, entered with the queues qs, the file sv and the
\* suspended invocations ts that its caller leaves behind.
play_next(c, qs, sv, ts) ==
    IF qs[c] = <<>>
    THEN /\ is_playing' = [is_playing EXCEPT ![c] = FALSE]
         /\ queues' = qs
         /\ saved' = sv
         /\ tasks' = ts
         /\ UNCHANGED <<now_playing, is_paused, deqlog>>
    ELSE /\ queues' = [qs EXCEPT ![c] = Pop(@).rest]
         /\ now_playing' = [now_playing EXCEPT ![c] = Pop(qs[c]).item]
         /\ is_playing' = [is_playing EXCEPT ![c] = TRUE]
         /\ is_paused' = [is_paused EXCEPT ![c] = FALSE]
         /\ saved' = save_data(queues')
         /\ tasks' = [ts EXCEPT ![c] = @ \cup
                        {[item |-> Pop(qs[c]).item, pc |-> "fetching"]}]
         /\ deqlog' = [deqlog EXCEPT ![c] = Append(@, Pop(qs[c]).item.id)]

\* play_command, lines 325-346
Play(c, u) ==
    IF QueueFull(queues[c])
    THEN /\ ev' = Event("play_full", c, 0)
         /\ UNCHANGED <<queues, now_playing, is_playing, is_paused, saved, tasks,
                        cmds, call, files, nextId, left, cfg, deqlog, pristine>>
    ELSE /\ left[c] > 0
         /\ LET it == QueueItem(c, nextId[c], u)
                q1 == [queues EXCEPT ![c] = Enqueue(@, it)]
            IN IF ShouldStart(c)
               THEN /\ play_next(c, q1, save_data(q1), tasks)
                    /\ ev' = Event("play_now", c, it.id)
               ELSE /\ queues' = q1
                    /\ saved' = save_data(q1)
                    /\ ev' = Event("play_queued", c, it.id)
                    /\ UNCHANGED <<now_playing, is_playing, is_paused, tasks, deqlog>>
         /\ nextId' = [nextId EXCEPT ![c] = @ + 1]
         /\ left' = [left EXCEPT ![c] = @ - 1]
         /\ UNCHANGED cfg
         /\ UNCHANGED <<cmds, call, files, pristine>>

\* a handler may enter its transport call
MayCall(c, k) == k \notin cmds[c] /\ Cardinality(cmds[c]) < MaxInflight

\* pause_command, lines 363-368, up to the await of calls.pause_stream
PauseBegin(c) ==
    /\ IF ~is_playing[c] \/ is_paused[c]
       THEN /\ ev' = Event("pause_rejected", c, 0)
            /\ UNCHANGED cmds
       ELSE /\ MayCall(c, "pause")
            /\ cmds' = [cmds EXCEPT ![c] = @ \cup {"pause"}]
            /\ ev' = Event("pause_call", c, 0)
    /\ UNCHANGED <<queues, now_playing, is_playing, is_paused, saved, tasks, call,
                   nextId, left, cfg, deqlog, pristine>>
    /\ UNCHANGED files

\* pause_command, lines 368-372, as it would be without the assignment of
\* line 369
PauseDoneNoFlag(c, ok) ==
    /\ "pause" \in cmds[c]
    /\ ok => call[c].joined
    /\ cmds' = [cmds EXCEPT ![c] = @ \ {"pause"}]
    /\ IF ok
       THEN /\ call' = [call EXCEPT ![c].paused = TRUE]
            /\ ev' = Event("paused", c, 0)
       ELSE /\ ev' = Event("pause_failed", c, 0)
            /\ UNCHANGED call
    /\ UNCHANGED <<queues, now_playing, is_playing, is_paused, saved, tasks, nextId,
                   left, cfg, deqlog, pristine>>
    /\ UNCHANGED files

\* pause_command, lines 368-372, from the return of calls.pause_stream
PauseDone(c, ok) ==
    /\ "pause" \in cmds[c]
    /\ ok => call[c].joined
    /\ cmds' = [cmds EXCEPT ![c] = @ \ {"pause"}]
    /\ IF ok
       THEN /\ call' = [call EXCEPT ![c].paused = TRUE]
            /\ is_paused' = [is_paused EXCEPT ![c] = TRUE]
            /\ ev' = Event("paused", c, 0)
       ELSE /\ ev' = Event("pause_failed", c, 0)
            /\ UNCHANGED <<call, is_paused>>
    /\ UNCHANGED <<queues, now_playing, is_playing, saved, tasks, nextId, left, cfg,
                   deqlog, pristine>>
    /\ UNCHANGED files

\* resume_command, lines 380-385
ResumeBegin(c) ==
    /\ IF ~is_paused[c]
       THEN /\ ev' = Event("resume_rejected", c, 0)
            /\ UNCHANGED cmds
       ELSE /\ MayCall(c, "resume")
            /\ cmds' = [cmds EXCEPT ![c] = @ \cup {"resume"}]
            /\ ev' = Event("resume_call", c, 0)
    /\ UNCHANGED <<queues, now_playing, is_playing, is_paused, saved, tasks, call,
                   nextId, left, cfg, deqlog, pristine>>
    /\ UNCHANGED files

\* resume_command, lines 385-389
ResumeDone(c, ok) ==
    /\ "resume" \in cmds[c]
    /\ ok => call[c].joined
    /\ cmds' = [cmds EXCEPT ![c] = @ \ {"resume"}]
    /\ IF ok
       THEN /\ call' = [call EXCEPT ![c].paused = FALSE]
            /\ is_paused' = [is_paused EXCEPT ![c] = FALSE]
            /\ ev' = Event("resumed", c, 0)
       ELSE /\ ev' = Event("resume_failed", c, 0)
            /\ UNCHANGED <<call, is_paused>>
    /\ UNCHANGED <<queues, now_playing, is_playing, saved, tasks, nextId, left, cfg,
                   deqlog, pristine>>
    /\ UNCHANGED files

\* skip_command, lines 397-408, up to the await of reply_text
SkipBegin(c, u) ==
    /\ IF ~is_playing[c]
       THEN /\ ev' = EventBy("skip_rejected", c, 0, u)
            /\ UNCHANGED cmds
       ELSE IF now_playing[c] # NoItem /\ now_playing[c].by # u /\ ~is_admin(c, u)
       THEN /\ ev' = EventBy("skip_denied", c, now_playing[c].id, u)
            /\ UNCHANGED cmds
       ELSE /\ MayCall(c, "skip")
            /\ cmds' = [cmds EXCEPT ![c] = @ \cup {"skip"}]
            /\ ev' = EventBy("skip_call", c, now_playing[c].id, u)
    /\ UNCHANGED <<queues, now_playing, is_playing, is_paused, saved, tasks, call,
                   nextId, left, cfg, deqlog, pristine>>
    /\ UNCHANGED files

\* skip_command, line 409
SkipDone(c) ==
    /\ "skip" \in cmds[c]
    /\ cmds' = [cmds EXCEPT ![c] = @ \ {"skip"}]
    /\ play_next(c, queues, saved, tasks)
    /\ ev' = Event("skipped", c, 0)
    /\ UNCHANGED <<call, nextId, left, cfg, pristine>>
    /\ UNCHANGED files

\* stop_command, lines 417-422, as it would be without the check of lines
\* 417-419
StopBeginUnchecked(c) ==
    /\ MayCall(c, "stop")
    /\ cmds' = [cmds EXCEPT ![c] = @ \cup {"stop"}]
    /\ ev' = Event("stop_call", c, 0)
    /\ UNCHANGED <<queues, now_playing, is_playing, is_paused, saved, tasks, call,
                   nextId, left, cfg, deqlog, pristine>>
    /\ UNCHANGED files

\* stop_command, lines 417-422, up to the await of calls.leave_group_call
StopBegin(c) ==
    /\ IF ~is_playing[c]
       THEN /\ ev' = Event("stop_rejected", c, 0)
            /\ UNCHANGED cmds
       ELSE /\ MayCall(c, "stop")
            /\ cmds' = [cmds EXCEPT ![c] = @ \cup {"stop"}]
            /\ ev' = Event("stop_call", c, 0)
    /\ UNCHANGED <<queues, now_playing, is_playing, is_paused, saved, tasks, call,
                   nextId, left, cfg, deqlog, pristine>>
    /\ UNCHANGED files

\* stop_command, lines 422-427
StopDone(c, ok) ==
    /\ "stop" \in cmds[c]
    /\ ok => call[c].joined
    /\ cmds' = [cmds EXCEPT ![c] = @ \ {"stop"}]
    /\ IF ok
       THEN /\ call' = [call EXCEPT ![c] = NotJoined]
            /\ is_playing' = [is_playing EXCEPT ![c] = FALSE]
            /\ is_paused' = [is_paused EXCEPT ![c] = FALSE]
            /\ ev' = Event("stopped", c, 0)
       ELSE /\ ev' = Event("stop_failed", c, 0)
            /\ UNCHANGED <<call, is_playing, is_paused>>
    /\ UNCHANGED <<queues, now_playing, saved, tasks, nextId, left, cfg, deqlog, pristine>>
    /\ UNCHANGED files

\* end_command, lines 435-445, up to the await of calls.leave_group_call
EndBegin(c) ==
    /\ MayCall(c, "end")
    /\ cmds' = [cmds EXCEPT ![c] = @ \cup {"end"}]
    /\ queues' = [queues EXCEPT ![c] = <<>>]
    /\ now_playing' = [now_playing EXCEPT ![c] = NoItem]
    /\ is_playing' = [is_playing EXCEPT ![c] = FALSE]
    /\ is_paused' = [is_paused EXCEPT ![c] = FALSE]
    /\ pristine' = [pristine EXCEPT ![c] = FALSE]
    /\ ev' = Event("end_call", c, 0)
    /\ UNCHANGED <<saved, tasks, call, nextId, left, cfg, deqlog>>
    /\ UNCHANGED files

\* end_command, lines 445-450, as it would be without the save of line 449
EndDoneNoSave(c, ok) ==
    /\ "end" \in cmds[c]
    /\ ok => call[c].joined
    /\ cmds' = [cmds EXCEPT ![c] = @ \ {"end"}]
    /\ call' = IF ok THEN [call EXCEPT ![c] = NotJoined] ELSE call
    /\ saved' = saved
    /\ ev' = Event("ended", c, 0)
    /\ UNCHANGED <<queues, now_playing, is_playing, is_paused, tasks, nextId,
                   left, cfg, deqlog, pristine>>
    /\ UNCHANGED files

\* end_command, lines 445-450
EndDone(c, ok) ==
    /\ "end" \in cmds[c]
    /\ ok => call[c].joined
    /\ cmds' = [cmds EXCEPT ![c] = @ \ {"end"}]
    /\ call' = IF ok THEN [call EXCEPT ![c] = NotJoined] ELSE call
    /\ saved' = save_data(queues)
    /\ ev' = Event("ended", c, 0)
    /\ UNCHANGED <<queues, now_playing, is_playing, is_paused, tasks, nextId,
                   left, cfg, deqlog, pristine>>
    /\ UNCHANGED files

\* clear_command, lines 458-464, as it would be if it removed the head only
ClearHead(c) ==
    /\ IF queues[c] = <<>>
       THEN /\ ev' = Event("clear_rejected", c, 0)
            /\ UNCHANGED <<queues, saved, pristine>>
       ELSE /\ queues' = [queues EXCEPT ![c] = Tail(@)]
            /\ saved' = save_data(queues')
            /\ pristine' = [pristine EXCEPT ![c] = FALSE]
            /\ ev' = Event("cleared", c, Len(queues[c]))
    /\ UNCHANGED <<now_playing, is_playing, is_paused, tasks, cmds, call, nextId,
                   left, cfg, deqlog>>
    /\ UNCHANGED files

\* clear_command, lines 458-464
Clear(c) ==
    /\ IF queues[c] = <<>>
       THEN /\ ev' = Event("clear_rejected", c, 0)
            /\ UNCHANGED <<queues, saved, pristine>>
       ELSE /\ queues' = [queues EXCEPT ![c] = <<>>]
            /\ saved' = save_data(queues')
            /\ pristine' = [pristine EXCEPT ![c] = FALSE]
            /\ ev' = Event("cleared", c, Len(queues[c]))
    /\ UNCHANGED <<now_playing, is_playing, is_paused, tasks, cmds, call, nextId,
                   left, cfg, deqlog>>
    /\ UNCHANGED files

\* stream_end_handler, lines 841-846: the transport reports the end of the
\* stream it is playing and the handler advances the chat.
StreamEnd(c) ==
    /\ call[c].stream # NoItem
    /\ ~call[c].paused
    /\ call' = [call EXCEPT ![c].stream = NoItem]
    /\ play_next(c, queues, saved, tasks)
    /\ ev' = Event("stream_end", c, call[c].stream.id)
    /\ UNCHANGED <<cmds, nextId, left, cfg, pristine>>
    /\ UNCHANGED files

\* some invocation of play_next is inside download_audio
LoopBusy == \E c \in Chats : \E t \in tasks[c] : t.pc = "downloading"

\* play_next, lines 713-714: bot.send_message has returned and download_audio
\* is entered. download_audio (lines 219-245) contains no await: yt_dlp runs
\* in the thread of the event loop, which serves nothing else until it returns.
Download(c, t) ==
    /\ t \in tasks[c]
    /\ t.pc = "fetching"
    /\ tasks' = [tasks EXCEPT ![c] = (@ \ {t}) \cup {[t EXCEPT !.pc = "downloading"]}]
    /\ ev' = Event("download", c, t.item.id)
    /\ UNCHANGED <<queues, now_playing, is_playing, is_paused, saved, cmds, call,
                   files, nextId, left, cfg, deqlog, pristine>>

\* play_next, lines 714-719, as it would be without the call of line 718
FetchDoneNoAdvance(c, t, ok) ==
    /\ t \in tasks[c]
    /\ t.pc = "downloading"
    /\ IF ok
       THEN /\ tasks' = [tasks EXCEPT ![c] = (@ \ {t}) \cup {[t EXCEPT !.pc = "joining"]}]
            /\ files' = [files EXCEPT ![c] = @ \cup {t.item.id}]
            /\ ev' = Event("fetched", c, t.item.id)
       ELSE /\ tasks' = [tasks EXCEPT ![c] = @ \ {t}]
            /\ ev' = Event("fetch_failed", c, t.item.id)
            /\ UNCHANGED files
    /\ UNCHANGED <<queues, now_playing, is_playing, is_paused, saved, deqlog>>
    /\ UNCHANGED <<cmds, call, nextId, left, cfg, pristine>>

\* play_next, lines 714-719, as it would be if a failed item went back to the
\* head of the queue
FetchDoneRetry(c, t, ok) ==
    /\ t \in tasks[c]
    /\ t.pc = "downloading"
    /\ IF ok
       THEN /\ tasks' = [tasks EXCEPT ![c] = (@ \ {t}) \cup {[t EXCEPT !.pc = "joining"]}]
            /\ files' = [files EXCEPT ![c] = @ \cup {t.item.id}]
            /\ ev' = Event("fetched", c, t.item.id)
            /\ UNCHANGED <<queues, now_playing, is_playing, is_paused, saved, deqlog>>
       ELSE /\ play_next(c, [queues EXCEPT ![c] = <<t.item>> \o @], saved,
                         [tasks EXCEPT ![c] = @ \ {t}])
            /\ ev' = Event("fetch_failed", c, t.item.id)
            /\ UNCHANGED files
    /\ UNCHANGED <<cmds, call, nextId, left, cfg, pristine>>

\* play_next, lines 714-719: download_audio returns the path of the file it
\* wrote, or None; without a file the invocation calls itself for the next
\* head.
FetchDone(c, t, ok) ==
    /\ t \in tasks[c]
    /\ t.pc = "downloading"
    /\ IF ok
       THEN /\ tasks' = [tasks EXCEPT ![c] = (@ \ {t}) \cup {[t EXCEPT !.pc = "joining"]}]
            /\ files' = [files EXCEPT ![c] = @ \cup {t.item.id}]
            /\ ev' = Event("fetched", c, t.item.id)
            /\ UNCHANGED <<queues, now_playing, is_playing, is_paused, saved, deqlog>>
       ELSE /\ play_next(c, queues, saved, [tasks EXCEPT ![c] = @ \ {t}])
            /\ ev' = Event("fetch_failed", c, t.item.id)
            /\ UNCHANGED files
    /\ UNCHANGED <<cmds, call, nextId, left, cfg, pristine>>

\* play_next, lines 721-735 and 774-785: join_group_call, or change_stream
\* when the call is joined already; when both raise, the handler of line 774
\* removes the file and calls play_next for the next head.
Join(c, t, ok) ==
    /\ t \in tasks[c]
    /\ t.pc = "joining"
    /\ IF ok
       THEN /\ call' = [call EXCEPT ![c] = [joined |-> TRUE, stream |-> t.item, paused |-> FALSE]]
            /\ tasks' = [tasks EXCEPT ![c] = (@ \ {t}) \cup {[t EXCEPT !.pc = "sleeping"]}]
            /\ ev' = Event("streaming", c, t.item.id)
            /\ UNCHANGED <<queues, now_playing, is_playing, is_paused, saved, files, deqlog>>
       ELSE /\ files' = [files EXCEPT ![c] = @ \ {t.item.id}]
            /\ play_next(c, queues, saved, [tasks EXCEPT ![c] = @ \ {t}])
            /\ ev' = Event("join_failed", c, t.item.id)
            /\ UNCHANGED call
    /\ UNCHANGED <<cmds, nextId, left, cfg, pristine>>

\* play_next, lines 761-772, as it would be without the call of line 772
TimerFireNoAdvance(c, t) ==
    /\ t \in tasks[c]
    /\ t.pc = "sleeping"
    /\ files' = [files EXCEPT ![c] = @ \ {t.item.id}]
    /\ tasks' = [tasks EXCEPT ![c] = @ \ {t}]
    /\ ev' = Event("timer", c, t.item.id)
    /\ UNCHANGED <<queues, now_playing, is_playing, is_paused, saved, deqlog>>
    /\ UNCHANGED <<cmds, call, nextId, left, cfg, pristine>>

\* play_next, lines 761-772: the sleep of the estimated duration is over, the
\* file is removed and the invocation calls itself for the next head.
TimerFire(c, t) ==
    /\ t \in tasks[c]
    /\ t.pc = "sleeping"
    /\ files' = [files EXCEPT ![c] = @ \ {t.item.id}]
    /\ play_next(c, queues, saved, [tasks EXCEPT ![c] = @ \ {t}])
    /\ ev' = Event("timer", c, t.item.id)
    /\ UNCHANGED <<cmds, call, nextId, left, cfg, pristine>>

\* reboot_command, lines 482-491, MusicBot.__init__, lines 97-116, and startup,
\* lines 854-863: the process is replaced, the new one starts from the queue
\* file and empties temp/.
Restart ==
    /\ queues' = load_data(saved)
    /\ now_playing' = [c \in Chats |-> NoItem]
    /\ is_playing' = [c \in Chats |-> FALSE]
    /\ is_paused' = [c \in Chats |-> FALSE]
    /\ tasks' = [c \in Chats |-> {}]
    /\ cmds' = [c \in Chats |-> {}]
    /\ call' = [c \in Chats |-> NotJoined]
    /\ files' = [c \in Chats |-> {}]
    /\ pristine' = [c \in Chats |-> FALSE]
    /\ ev' = Event("restart", "c1", 0)
    /\ UNCHANGED <<saved, nextId, left, cfg, deqlog>>

\* The handlers run on one event loop: none of them is served while the loop
\* is inside download_audio.
Next ==
    \/ \E c \in cfg.chats, u \in cfg.users : ~LoopBusy /\ Play(c, u)
    \/ \E c \in cfg.chats : ~LoopBusy /\ PauseBegin(c)
    \/ \E c \in cfg.chats, ok \in BOOLEAN : ~LoopBusy /\ PauseDone(c, ok)
    \/ \E c \in cfg.chats : ~LoopBusy /\ ResumeBegin(c)
    \/ \E c \in cfg.chats, ok \in BOOLEAN : ~LoopBusy /\ ResumeDone(c, ok)
    \/ \E c \in cfg.chats, u \in cfg.users : ~LoopBusy /\ SkipBegin(c, u)
    \/ \E c \in cfg.chats : ~LoopBusy /\ SkipDone(c)
    \/ \E c \in cfg.chats : ~LoopBusy /\ StopBegin(c)
    \/ \E c \in cfg.chats, ok \in BOOLEAN : ~LoopBusy /\ StopDone(c, ok)
    \/ \E c \in cfg.chats : ~LoopBusy /\ EndBegin(c)
    \/ \E c \in cfg.chats, ok \in BOOLEAN : ~LoopBusy /\ EndDone(c, ok)
    \/ \E c \in cfg.chats : ~LoopBusy /\ Clear(c)
    \/ \E c \in cfg.chats : ~LoopBusy /\ StreamEnd(c)
    \/ \E c \in cfg.chats : \E t \in tasks[c] : ~LoopBusy /\ Download(c, t)
    \/ \E c \in cfg.chats : \E t \in tasks[c], ok \in BOOLEAN : FetchDone(c, t, ok)
    \/ \E c \in cfg.chats : \E t \in tasks[c], ok \in BOOLEAN : ~LoopBusy /\ Join(c, t, ok)
    \/ \E c \in cfg.chats : \E t \in tasks[c] : ~LoopBusy /\ TimerFire(c, t)
    \/ ~LoopBusy /\ Restart

Spec == Init /\ [][Next]_vars

\* The awaits of an invocation of play_next return: bot.send_message (line
\* 713), download_audio (line 714), join_group_call or change_stream (lines
\* 724-733) and asyncio.sleep (line 761), and the event loop runs a callback
\* that is ready.
Returns(c) ==
    /\ WF_vars(\E t \in tasks[c] : ~LoopBusy /\ Download(c, t))
    /\ WF_vars(\E t \in tasks[c], ok \in BOOLEAN : FetchDone(c, t, ok))
    /\ WF_vars(\E t \in tasks[c], ok \in BOOLEAN : ~LoopBusy /\ Join(c, t, ok))
    /\ WF_vars(\E t \in tasks[c] : ~LoopBusy /\ TimerFire(c, t))

LiveSpec == Init /\ [][Next]_vars /\ \A c \in Chats : Returns(c)

----------------------------------------------------------------------------
\* The claims.

PlayOps == {"play_now", "play_queued", "play_full"}

\* C1: in every reachable state the now-playing slot of a session is empty
\* exactly when the session is Idle.
C1_SlotEmptyIffIdle ==
    \A c \in Chats : (now_playing[c] = NoItem) <=> Idle(c)

\* C2: when the transport's stream-ended event of an item has been handled
\* and the duration timer of the same item fires next, the timer is a no-op:
\* nothing more is dequeued and the session is as the first signal left it.
C2_SecondSignalNoOp ==
    [][\A c \in Chats :
          (/\ ev.op = "stream_end" /\ ev.chat = c
           /\ ev'.op = "timer" /\ ev'.chat = c /\ ev'.id = ev.id)
          => /\ queues'[c] = queues[c]
             /\ now_playing'[c] = now_playing[c]
             /\ is_playing'[c] = is_playing[c]
             /\ deqlog'[c] = deqlog[c]]_vars

\* C3: a play request accepted while the session is Streaming only appends:
\* the queue grows by one, the session stays Streaming with the same
\* now-playing item, and no new invocation of play_next is started.
C3_PlayWhileStreamingAppends ==
    [][\A c \in Chats :
          (Streaming(c) /\ ev'.chat = c /\ ev'.op \in {"play_now", "play_queued"})
          => /\ Len(queues'[c]) = Len(queues[c]) + 1
             /\ now_playing'[c] = now_playing[c]
             /\ is_playing'[c] /\ ~is_paused'[c]
             /\ tasks'[c] = tasks[c]]_vars

\* C4: a stop that succeeds on a session that is playing leaves it Idle with
\* the now-playing slot cleared and the queue as it was.
C4_StopClearsSlot ==
    [][\A c \in Chats :
          (is_playing[c] /\ ev'.chat = c /\ ev'.op = "stopped")
          => /\ ~is_playing'[c]
             /\ now_playing'[c] = NoItem
             /\ queues'[c] = queues[c]]_vars

\* C5: once stop or end has run on a session that has a fetch in flight (an
\* invocation of play_next between its dequeue and its hand-off to the
\* transport), the fetch is discarded: the next step of the session is not
\* that invocation going on to download or to hand its file to the transport.
C5_FetchAfterStopDiscarded ==
    [][\A c \in Chats :
          (/\ ev.op \in {"stopped", "end_call"} /\ ev.chat = c
           /\ \E t \in tasks[c] : t.pc # "sleeping")
          => ~(ev'.chat = c /\ ev'.op \in {"download", "streaming"})]_vars

\* C6: at most one invocation of play_next per session is between its
\* dequeue and its hand-off to the transport.
C6_OneDequeueInProgress ==
    \A c \in Chats : Cardinality({t \in tasks[c] : t.pc # "sleeping"}) <= 1

C8_FullQueueRejects ==
    [][\A c \in Chats :
          (Len(queues[c]) >= MAX_QUEUE_SIZE /\ ev'.chat = c /\ ev'.op \in PlayOps)
          => /\ ev'.op = "play_full"
             /\ UNCHANGED <<queues, now_playing, is_playing, is_paused, saved,
                            tasks, call, nextId>>]_vars

C8_Witness ==
    \E c \in Chats : ev = Event("play_full", c, 0) /\ Len(queues[c]) = MAX_QUEUE_SIZE

\* C9: while a session has seen no clear, end or restart, its queue length
\* is the number of accepted requests minus the number of dequeues, and a
\* queue is never longer than MAX_QUEUE_SIZE.
C9_LenIsEnqueuedMinusDequeued ==
    \A c \in Chats :
        /\ Len(queues[c]) <= MAX_QUEUE_SIZE
        /\ pristine[c] => Len(queues[c]) = (nextId[c] - 1) - Len(deqlog[c])

C9_Witness ==
    \E c \in Chats : pristine[c] /\ Len(deqlog[c]) >= 2 /\ Len(queues[c]) >= 1 /\ left[c] = 0

\* C10: when the fetch of the dequeued item fails, the item is dropped and,
\* in the same step, the next head of the queue becomes now-playing and is
\* fetched; with an empty queue the session goes Idle.
C10_FetchFailureAdvances ==
    [][\A c \in Chats :
          (ev'.op = "fetch_failed" /\ ev'.chat = c)
          => /\ \A t \in tasks'[c] : t.item.id # ev'.id
             /\ IF queues[c] = <<>>
                THEN ~is_playing'[c] /\ queues'[c] = <<>>
                ELSE /\ now_playing'[c] = Head(queues[c])
                     /\ queues'[c] = Tail(queues[c])
                     /\ is_playing'[c] /\ ~is_paused'[c]
                     /\ [item |-> Head(queues[c]), pc |-> "fetching"] \in tasks'[c]]_vars

\* the scenario of C10: the queue was [1, 2, 3], the fetch of 1 has failed
C10_Witness ==
    /\ ev = Event("fetch_failed", "c1", 1)
    /\ deqlog["c1"] = <<1, 2>>
    /\ now_playing["c1"].id = 2
    /\ Len(queues["c1"]) = 1 /\ queues["c1"][1].id = 3
    /\ tasks["c1"] = {[item |-> now_playing["c1"], pc |-> "fetching"]}
\* C11: a skip that was authorized, carried out on a session that is Streaming
\* or Paused, acts as an end of stream does: with a queued item the head
\* becomes now-playing, the queue is one shorter and the session plays
\* unpaused; with an empty queue the session is Idle and the slot is empty.
C11_SkipAdvances ==
    [][\A c \in Chats :
          (is_playing[c] /\ ev'.chat = c /\ ev'.op = "skipped")
          => IF queues[c] = <<>>
             THEN ~is_playing'[c] /\ now_playing'[c] = NoItem /\ queues'[c] = <<>>
             ELSE /\ now_playing'[c] = Head(queues[c])
                  /\ queues'[c] = Tail(queues[c])
                  /\ is_playing'[c] /\ ~is_paused'[c]]_vars

\* C12: a completion signal (the duration timer, or the transport's end of
\* stream) that belongs to an item other than the now-playing one is a no-op:
\* nothing is dequeued, no invocation is started, and the now-playing item and
\* the flags of the session stay as they are.
C12_StaleSignalNoOp ==
    [][\A c \in Chats :
          (ev'.chat = c /\ ev'.op \in {"timer", "stream_end"} /\ ev'.id # now_playing[c].id)
          => /\ queues'[c] = queues[c]
             /\ now_playing'[c] = now_playing[c]
             /\ is_playing'[c] = is_playing[c]
             /\ is_paused'[c] = is_paused[c]
             /\ deqlog'[c] = deqlog[c]]_vars

\* the state in which the end command leaves a session
Ended(c) == ~is_playing[c] /\ now_playing[c] = NoItem /\ queues[c] = <<>>

\* C13: the end command, from any state, leaves the session Idle with the
\* now-playing slot cleared and the queue empty, and a session in that state
\* stays in it with every step that is not a play request accepted for it.
C13_EndStaysEnded ==
    [][\A c \in Chats :
          /\ (ev'.chat = c /\ ev'.op = "end_call") => Ended(c)'
          /\ (Ended(c) /\ ~(ev'.chat = c /\ ev'.op \in {"play_now", "play_queued"}))
                => Ended(c)']_vars

\* C14: a pause that succeeds on a Streaming session leaves it Paused and a
\* resume that succeeds on a Paused session leaves it playing unpaused; each
\* changes the paused flag of its session (and of the transport's stream) and
\* nothing else: not the now-playing item, not a queue, not an invocation of
\* play_next. So a resume after a pause gives back the state before the pause.
C14_PauseResume ==
    [][\A c \in Chats :
          /\ (Streaming(c) /\ ev'.chat = c /\ ev'.op = "paused")
                => /\ Paused(c)'
                   /\ is_paused' = [is_paused EXCEPT ![c] = TRUE]
                   /\ call' = [call EXCEPT ![c].paused = TRUE]
                   /\ UNCHANGED <<queues, now_playing, is_playing, saved, tasks>>
          /\ (Paused(c) /\ ev'.chat = c /\ ev'.op = "resumed")
                => /\ Active(c)'
                   /\ is_paused' = [is_paused EXCEPT ![c] = FALSE]
                   /\ call' = [call EXCEPT ![c].paused = FALSE]
                   /\ UNCHANGED <<queues, now_playing, is_playing, saved, tasks>>]_vars

\* a session that was paused while it streamed has been resumed and streams
\* the same item again
C14_Witness ==
    \E c \in Chats :
        /\ ev = Event("resumed", c, 0)
        /\ Streaming(c)
        /\ now_playing[c] # NoItem
        /\ call[c] = [joined |-> TRUE, stream |-> now_playing[c], paused |-> FALSE]

RejectOps == {"pause_rejected", "resume_rejected", "skip_rejected", "stop_rejected"}

\* C15: pause when nothing is playing or the session is paused already,
\* resume when it is not paused, skip and stop when nothing is playing are
\* rejected, and a rejected command changes no queue, now-playing slot or
\* flag, starts no invocation of play_next and makes no call to the transport.
C15_RejectedNoChange ==
    [][\A c \in Chats :
          /\ (ev'.chat = c /\ ev'.op \in {"pause_rejected", "pause_call"})
                => (ev'.op = "pause_rejected" <=> (~is_playing[c] \/ is_paused[c]))
          /\ (ev'.chat = c /\ ev'.op \in {"resume_rejected", "resume_call"})
                => (ev'.op = "resume_rejected" <=> ~is_paused[c])
          /\ (ev'.chat = c /\ ev'.op \in {"skip_rejected", "skip_denied", "skip_call"})
                => (ev'.op = "skip_rejected" <=> ~is_playing[c])
          /\ (ev'.chat = c /\ ev'.op \in {"stop_rejected", "stop_call"})
                => (ev'.op = "stop_rejected" <=> ~is_playing[c])
          /\ (ev'.chat = c /\ ev'.op \in RejectOps)
                => UNCHANGED <<queues, now_playing, is_playing, is_paused, saved,
                               tasks, cmds, call, deqlog>>]_vars

\* a stop has been rejected on a session that is not playing and still has a
\* queue, an item in the slot and a joined call
C15_Witness ==
    \E c \in Chats :
        /\ ev = Event("stop_rejected", c, 0)
        /\ ~is_playing[c]
        /\ queues[c] # <<>>
        /\ call[c].joined

\* C16: a skip of a playing session is let through exactly when its sender is
\* the requester of the now-playing item or an administrator of the chat; a
\* skip that is denied changes nothing of the session.
C16_SkipAuthorized ==
    [][\A c \in Chats :
          /\ (/\ ev'.chat = c /\ ev'.op \in {"skip_denied", "skip_call"}
              /\ now_playing[c] # NoItem)
                => (ev'.op = "skip_call"
                       <=> (ev'.by = now_playing[c].by \/ ev'.by \in ChatAdmins))
          /\ (ev'.chat = c /\ ev'.op = "skip_denied")
                => UNCHANGED <<queues, now_playing, is_playing, is_paused, saved,
                               tasks, cmds, call, deqlog>>]_vars

\* a step that the program takes for chat d: a command of d, or a completion
\* signal or continuation of one of its invocations of play_next
StepOf(d) == Next /\ ev'.chat = d /\ ev'.op # "restart"

\* C19: while a fetch of one session is in progress (its invocation of
\* play_next has announced the download or is inside download_audio), the
\* program can take a step for any other session.
C19_SessionsDoNotBlock ==
    \A c \in cfg.chats, d \in cfg.chats :
        (c # d /\ \E t \in tasks[c] : t.pc \in {"fetching", "downloading"})
            => ENABLED StepOf(d)

\* C20: the audio files of a session in temp/ are at most the file of its
\* now-playing item: when an item leaves the slot, its file is gone.
C20_OnlyNowPlayingFile ==
    \A c \in Chats : \A n \in files[c] : now_playing[c] # NoItem /\ n = now_playing[c].id

\* C17: when the awaits of play_next return, no session plays unpaused for
\* ever without an advance: again and again it is not in Fetching or Streaming,
\* or play_next dequeues for it. And when join_group_call and change_stream
\* fail, the failure is answered by removing the file and by an advance: the
\* next head is dequeued and fetched, or the session goes Idle.
C17_NoWedge ==
    /\ \A c \in Chats : []<>(~Active(c)) \/ []<><<deqlog'[c] # deqlog[c]>>_vars
    /\ [][\A c \in Chats :
             (ev'.chat = c /\ ev'.op = "join_failed")
             => /\ ev'.id \notin files'[c]
                /\ \A t \in tasks'[c] : t.item.id # ev'.id
                /\ IF queues[c] = <<>>
                   THEN ~is_playing'[c]
                   ELSE /\ now_playing'[c] = Head(queues[c])
                        /\ [item |-> Head(queues[c]), pc |-> "fetching"] \in tasks'[c]]_vars

\* the hand-off of an item to the transport has failed and the next head is
\* being fetched
C17_Witness ==
    \E c \in Chats :
        /\ ev.op = "join_failed" /\ ev.chat = c
        /\ Fetching(c)
        /\ now_playing[c].id > ev.id

\* C18: recovery from failed fetches ends. play_next never fetches an item
\* twice and never more items than were accepted; a failed fetch with items
\* queued makes the queue one shorter and starts the one fetch of the head in
\* place of the failed one; a failed fetch with an empty queue starts nothing
\* and leaves the session Idle. So n failures in a row on a queue of n items
\* are n fetches, an empty queue and an Idle session.
C18_RecoveryTerminates ==
    /\ [](\A c \in Chats :
             /\ Len(deqlog[c]) <= nextId[c] - 1
             /\ \A i, j \in 1..Len(deqlog[c]) : i # j => deqlog[c][i] # deqlog[c][j])
    /\ [][\A c \in Chats :
             (ev'.chat = c /\ ev'.op = "fetch_failed")
             => /\ \A t \in tasks'[c] : t.item.id # ev'.id
                /\ \A i \in 1..Len(queues'[c]) : queues'[c][i].id # ev'.id
                /\ IF queues[c] = <<>>
                   THEN /\ ~is_playing'[c]
                        /\ queues'[c] = <<>>
                        /\ deqlog'[c] = deqlog[c]
                        /\ Cardinality(tasks'[c]) = Cardinality(tasks[c]) - 1
                   ELSE /\ Len(queues'[c]) = Len(queues[c]) - 1
                        /\ deqlog'[c] = Append(deqlog[c], Head(queues[c]).id)
                        /\ Cardinality(tasks'[c]) = Cardinality(tasks[c])]_vars

\* three items were accepted, the three fetches have failed one after the
\* other, the queue is empty and the session Idle
C18_Witness ==
    /\ ev = Event("fetch_failed", "c1", 3)
    /\ deqlog["c1"] = <<1, 2, 3>>
    /\ pristine["c1"]
    /\ queues["c1"] = <<>>
    /\ tasks["c1"] = {}
    /\ files["c1"] = {}
    /\ ~call["c1"].joined
    /\ ~is_playing["c1"]

\* a session as a restart leaves it: Idle and not paused, with an empty slot, no
\* invocation of play_next and no call
Dormant(c) ==
    /\ ~is_playing[c]
    /\ ~is_paused[c]
    /\ now_playing[c] = NoItem
    /\ tasks[c] = {}
    /\ call[c] = NotJoined
    /\ cmds[c] \subseteq {"end"}

\* C21: the queue file never holds the now-playing item of a session. A
\* restart gives every session the queue of the file, item for item in the
\* order of the file, and leaves it Idle and not paused, with an empty slot, no invocation of
\* play_next and no call; and a session in that state stays in it with every
\* step that is not a play request accepted for it.
C21_RestartReloadsIdle ==
    /\ [](\A c \in Chats : \A i \in 1..Len(saved[c]) :
             now_playing[c] # NoItem => saved[c][i].id # now_playing[c].id)
    /\ [][ev'.op = "restart"
             => \A c \in Chats :
                   /\ Len(queues'[c]) = Len(saved[c])
                   /\ \A i \in 1..Len(saved[c]) : ToJson(queues'[c][i]) = saved[c][i]
                   /\ Dormant(c)']_vars
    /\ [][\A c \in Chats :
             (Dormant(c) /\ ~(ev'.chat = c /\ ev'.op \in {"play_now", "play_queued"}))
             => Dormant(c)']_vars

\* the process has restarted with a file of two items while a session was
\* playing, and the session has its two items and is Idle
C21_Witness ==
    /\ ev.op = "restart"
    /\ Len(deqlog["c1"]) >= 1
    /\ Len(saved["c1"]) = 2
    /\ Len(queues["c1"]) = 2
    /\ queues["c1"][1].id < queues["c1"][2].id
    /\ queues["c1"][1].at = "load"
    /\ Dormant("c1")

\* C22: pause, resume, stop and end report success only when their call to
\* the transport has succeeded: after "paused" the stream of the call is
\* paused, after "resumed" it is not, after "stopped" and after "ended" the
\* call has been left. A call that raised is answered with the failure.
C22_TransportFailureSurfaced ==
    [][\A c \in Chats :
          /\ (ev'.chat = c /\ ev'.op = "paused") => call[c].joined /\ call'[c].paused
          /\ (ev'.chat = c /\ ev'.op = "resumed") => call[c].joined /\ ~call'[c].paused
          /\ (ev'.chat = c /\ ev'.op = "stopped") => call[c].joined /\ ~call'[c].joined
          /\ (ev'.chat = c /\ ev'.op = "ended") => ~call'[c].joined]_vars

\* C23: clear on a queue with items empties the queue, reports the number of
\* items it removed and writes the file; it changes no now-playing item, flag,
\* invocation of play_next, call or audio file. Clear on an empty queue is
\* answered as such and changes nothing at all.
C23_Clear ==
    [][\A c \in Chats :
          /\ (ev'.chat = c /\ ev'.op \in {"cleared", "clear_rejected"})
                => (ev'.op = "clear_rejected" <=> queues[c] = <<>>)
          /\ (ev'.chat = c /\ ev'.op = "cleared")
                => /\ queues' = [queues EXCEPT ![c] = <<>>]
                   /\ ev'.id = Len(queues[c])
                   /\ saved' = save_data(queues')
                   /\ UNCHANGED <<now_playing, is_playing, is_paused, tasks, cmds,
                                  call, files, deqlog>>
          /\ (ev'.chat = c /\ ev'.op = "clear_rejected")
                => UNCHANGED <<queues, now_playing, is_playing, is_paused, saved,
                               tasks, cmds, call, files, deqlog>>]_vars

\* two queued items have been cleared from a session that goes on playing
C23_Witness ==
    \E c \in Chats :
        /\ ev = Event("cleared", c, 2)
        /\ queues[c] = <<>>
        /\ is_playing[c]
        /\ now_playing[c] # NoItem
        /\ tasks[c] # {}

\* the steps of a command that may change the queue or the now-playing item
\* of a paused session, and the restart of the process
CommandOps == {"skipped", "stopped", "end_call", "play_now", "play_queued", "cleared", "restart"}

\* C24: while a session is Paused, its now-playing item and its queue are
\* changed by a command only: the duration timer and the other completion
\* signals of play_next dequeue nothing and start nothing during a pause.
C24_PausedTimerNoAdvance ==
    [][\A c \in Chats :
          (Paused(c) /\ ev'.chat = c /\ ev'.op \notin CommandOps)
          => /\ now_playing'[c] = now_playing[c]
             /\ queues'[c] = queues[c]
             /\ Paused(c)'
             /\ deqlog'[c] = deqlog[c]]_vars

\* C25: in every reachable state a session whose paused flag is set has its
\* playing flag set.
C25_PausedImpliesPlaying ==
    \A c \in Chats : is_paused[c] => is_playing[c]

\* C26: a play request that takes the now-playing branch (it is answered with
\* "Now playing" and its own title) has put its own item into the now-playing
\* slot; a request made when items are pending ahead of it takes the branch
\* that is answered with the position in the queue.
C26_PlayReply ==
    [][\A c \in Chats :
          /\ (ev'.chat = c /\ ev'.op = "play_now") => now_playing'[c].id = ev'.id
          /\ (ev'.chat = c /\ ev'.op \in {"play_now", "play_queued"} /\ queues[c] # <<>>)
                => ev'.op = "play_queued"]_vars

\* C27: when a handler that changes a queue has run to its save (an accepted
\* play request, a dequeue of play_next, clear, and end once its transport
\* call has returned), the queue file holds the queues of all sessions as
\* they are in memory, item for item and in order.
C27_SnapshotEqualsQueues ==
    [][(\/ ev'.op \in {"play_now", "play_queued", "cleared", "ended"}
        \/ deqlog' # deqlog)
          => /\ saved' = save_data(queues')
             /\ \A c \in Chats :
                   /\ Len(saved'[c]) = Len(queues'[c])
                   /\ \A i \in 1..Len(queues'[c]) : saved'[c][i].id = queues'[c][i].id]_vars

\* a second dequeue of a session has left an item in its queue, and the file
\* holds that queue
C27_Witness ==
    \E c \in Chats :
        /\ ev.chat = c /\ ev.op \in {"timer", "skipped", "stream_end"}
        /\ Len(deqlog[c]) >= 2
        /\ queues[c] # <<>>
        /\ Len(saved[c]) = Len(queues[c])
        /\ saved[c][1].id = queues[c][1].id
====
